---- MODULE Spec2Model ----
(***************************************************************************)
(* Model of ansible_playbook/scripts/encrypt_secrets.py: a command-line    *)
(* script that seals a secret to a base64 public key (PyNaCl SealedBox)    *)
(* and prints the base64 ciphertext.                                       *)
(*                                                                         *)
(* A Python str is a sequence of code points, bytes are a sequence of      *)
(* numbers 0..255.  Text conversions (UTF-8, base64) are computed as       *)
(* CPython computes them.  The sealed-box primitive called on line 14 is   *)
(* libsodium's crypto_box_seal: its layout, its refusal of small-order     *)
(* keys, the XOR with the key stream and the Poly1305 tag are computed;    *)
(* the values of X25519, BLAKE2b and XSalsa20 are the library's, tabulated *)
(* for the keys the model uses.                                            *)
(***************************************************************************)
EXTENDS Integers, Sequences, FiniteSets, TLC

\* ------------------------------------------------------------------ bounds
MaxSecretLen == 2
NumProcs == 2
NumEphemeral == 3
NumKeyPairs == 2
MaxExtraArgs == 1

\* ------------------------------------------------- constants of the library
\* PublicKey.SIZE = crypto_box_PUBLICKEYBYTES
KeyBytes == 32
\* crypto_box_MACBYTES
MacBytes == 16

\* ------------------------------------------------------------ fixed strings
\* "Usage: python encrypt_secret.py <base64_public_key> <secret_value>"
UsageLine ==
  <<85, 115, 97, 103, 101, 58, 32, 112, 121, 116, 104, 111, 110, 32, 101, 110,
    99, 114, 121, 112, 116, 95, 115, 101, 99, 114, 101, 116, 46, 112, 121, 32,
    60, 98, 97, 115, 101, 54, 52, 95, 112, 117, 98, 108, 105, 99, 95, 107, 101,
    121, 62, 32, 60, 115, 101, 99, 114, 101, 116, 95, 118, 97, 108, 117, 101,
    62>>

\* sys.argv[0]: "encrypt_secrets.py"
ProgName ==
  <<101, 110, 99, 114, 121, 112, 116, 95, 115, 101, 99, 114, 101, 116, 115, 46,
    112, 121>>

\* --------------------------------------------------------- sequence helpers
\* Op(x), with x computed once and then handed to Op as a value.
Once(Op(_), x) == CHOOSE r \in {Op(v) : v \in {x}} : TRUE

\* The sum of s[lo..hi] for a = <<s, lo, hi>>, by halves.
RECURSIVE SumRange(_)
SumRange(a) ==
  IF a[2] > a[3] THEN 0
  ELSE IF a[2] = a[3] THEN a[1][a[2]]
  ELSE Once(SumRange, <<a[1], a[2], (a[2] + a[3]) \div 2>>)
         + Once(SumRange, <<a[1], (a[2] + a[3]) \div 2 + 1, a[3]>>)

SumAll(s) == SumRange(<<s, 1, Len(s)>>)
SumSeq(s) == Once(SumAll, s)

\* The concatenation of ss[lo..hi] for a = <<ss, lo, hi>>, by halves.
RECURSIVE ConcatRange(_)
ConcatRange(a) ==
  IF a[2] > a[3] THEN <<>>
  ELSE IF a[2] = a[3] THEN a[1][a[2]]
  ELSE Once(ConcatRange, <<a[1], a[2], (a[2] + a[3]) \div 2>>)
         \o Once(ConcatRange, <<a[1], (a[2] + a[3]) \div 2 + 1, a[3]>>)

ConcatAll(ss) == ConcatRange(<<ss, 1, Len(ss)>>)
Concat(ss) == Once(ConcatAll, ss)

Repeat(x, n) == [i \in 1..n |-> x]

RECURSIVE SeqsUpTo(_, _)
SeqsUpTo(S, n) ==
  IF n = 0 THEN {<<>>}
  ELSE LET shorter == SeqsUpTo(S, n - 1)
       IN shorter \cup {Append(s, x) : s \in shorter, x \in S}

\* ------------------------------------------------------------ str.encode
\* The UTF-8 bytes of one code point; <<>> for a surrogate, which
\* str.encode("utf-8") refuses (UnicodeEncodeError).
Utf8CharTruncated(c) == <<c % 256>>

Utf8Char(c) ==
  IF c < 128 THEN <<c>>
  ELSE IF c < 2048 THEN <<192 + (c \div 64), 128 + (c % 64)>>
  ELSE IF c >= 55296 /\ c <= 57343 THEN <<>>
  ELSE IF c < 65536
    THEN <<224 + (c \div 4096), 128 + ((c \div 64) % 64), 128 + (c % 64)>>
  ELSE <<240 + (c \div 262144), 128 + ((c \div 4096) % 64),
         128 + ((c \div 64) % 64), 128 + (c % 64)>>

IsSurrogate(c) == c >= 55296 /\ c <= 57343

\* s.encode("utf-8"): ok is FALSE when the string holds a surrogate.
Utf8Encode(s) ==
  IF \E i \in 1..Len(s) : IsSurrogate(s[i])
  THEN [ok |-> FALSE, bytes |-> <<>>]
  ELSE [ok |-> TRUE, bytes |-> Concat([i \in 1..Len(s) |-> Utf8Char(s[i])])]

\* ---------------------------------------------------------------- base64
\* binascii's table_a2b_base64: the 6-bit value of a byte, 64 when the byte
\* is not in the alphabet.
B64Value(ch) ==
  IF ch >= 65 /\ ch <= 90 THEN ch - 65
  ELSE IF ch >= 97 /\ ch <= 122 THEN ch - 71
  ELSE IF ch >= 48 /\ ch <= 57 THEN ch + 4
  ELSE IF ch = 43 THEN 62
  ELSE IF ch = 47 THEN 63
  ELSE 64

\* table_b2a_base64
B64Char(v) ==
  IF v < 26 THEN 65 + v
  ELSE IF v < 52 THEN 71 + v
  ELSE IF v < 62 THEN v - 4
  ELSE IF v = 62 THEN 43
  ELSE 47

\* binascii.a2b_base64(data, strict_mode=False).  The C loop walks the input
\* once with quad_pos (the data characters seen so far, modulo 4) and pads
\* (the '=' seen since the last data character, counted once quad_pos >= 2);
\* it skips every byte outside the alphabet and stops at the '=' that
\* completes a quad.  The same values are computed here by position.
IsB64Data(ch) == B64Value(ch) < 64

\* quad_pos when the loop reaches position i
QuadPos(data, i) == Cardinality({j \in 1..(i - 1) : IsB64Data(data[j])}) % 4

\* the '=' at positions up to i since the last data character
PadsUpTo(data, i) ==
  Cardinality({j \in 1..i :
                 /\ data[j] = 61
                 /\ \A k \in (j + 1)..i : ~IsB64Data(data[k])})

\* the loop leaves at i: an '=' with quad_pos >= 2 and quad_pos + ++pads >= 4
StopsAt(data, i) ==
  /\ data[i] = 61
  /\ QuadPos(data, i) >= 2
  /\ QuadPos(data, i) + PadsUpTo(data, i) >= 4

\* the position the loop leaves at, Len(data) + 1 when it reads to the end
A2BStop(data) ==
  LET stops == {i \in 1..Len(data) : StopsAt(data, i)}
  IN IF stops = {} THEN Len(data) + 1
     ELSE CHOOSE i \in stops : \A j \in stops : i <= j

\* the 6-bit values of the data characters chars
Sextets(chars) == [k \in 1..Len(chars) |-> B64Value(chars[k])]

\* the bytes of the quads made of the 6-bit values vals
QuadBytes(vals) ==
  LET n == Len(vals)
      count == 3 * (n \div 4)
                 + (IF n % 4 = 2 THEN 1 ELSE IF n % 4 = 3 THEN 2 ELSE 0)
  IN [j \in 1..count |->
        LET g == 4 * ((j - 1) \div 3)
            r == (j - 1) % 3
            c1 == vals[g + r + 1]
            c2 == vals[g + r + 2]
        IN IF r = 0 THEN c1 * 4 + (c2 \div 16)
           ELSE IF r = 1 THEN (c1 % 16) * 16 + (c2 \div 4)
           ELSE (c1 % 4) * 64 + c2]

\* the end of the loop: an error when it read to the end of the input inside
\* a quad ("Incorrect padding"), the bytes otherwise
A2BFinish(r) ==
  IF ~r.stopped /\ Len(r.vals) % 4 # 0
  THEN [ok |-> FALSE, bytes |-> <<>>]
  ELSE [ok |-> TRUE, bytes |-> QuadBytes(r.vals)]

A2BBase64(data) ==
  Once(A2BFinish,
       [stopped |-> A2BStop(data) <= Len(data),
        vals |-> Once(Sextets,
                      SelectSeq(SubSeq(data, 1, A2BStop(data) - 1),
                                IsB64Data))])

\* encoding.Base64Encoder.decode(data) = base64.b64decode(data): characters
\* outside the alphabet are discarded, not rejected.
B64Decode(data) == Once(A2BBase64, data)

\* binascii.b2a_base64: character k of the encoding.  Each group of three
\* bytes gives four characters; a last group of one or two bytes is filled
\* with zero bits and padded with '='.
B64CharAt(bytes, k) ==
  LET g == 3 * ((k - 1) \div 4)
      r == (k - 1) % 4
      b1 == bytes[g + 1]
      b2 == IF g + 2 <= Len(bytes) THEN bytes[g + 2] ELSE 0
      b3 == IF g + 3 <= Len(bytes) THEN bytes[g + 3] ELSE 0
  IN IF r = 0 THEN B64Char(b1 \div 4)
     ELSE IF r = 1 THEN B64Char((b1 % 4) * 16 + (b2 \div 16))
     ELSE IF r = 2
       THEN IF g + 2 <= Len(bytes) THEN B64Char((b2 % 16) * 4 + (b3 \div 64))
            ELSE 61
     ELSE IF g + 3 <= Len(bytes) THEN B64Char(b3 % 64) ELSE 61

\* base64.b64encode(bytes): the padded encoding, as ASCII bytes.
B64EncodeValue(bytes) ==
  [k \in 1..(4 * ((Len(bytes) + 2) \div 3)) |-> B64CharAt(bytes, k)]

B64Encode(bytes) == Once(B64EncodeValue, bytes)

\* bytes.decode("utf-8") of ASCII bytes: each byte is its own code point.
AsciiDecode(bytes) == bytes

\* ------------------------------------------------- the sealed-box primitive
\* sealed_box.encrypt(m) is crypto_box_seal(m, pk) of libsodium:
\*   crypto_box_keypair draws the ephemeral secret esk, epk is its public key;
\*   nonce = BLAKE2b-24(epk || pk);
\*   k = HSalsa20(crypto_scalarmult(esk, pk)), refused for small-order pk;
\*   stream = XSalsa20(k, nonce): 32 bytes of Poly1305 key, then the key
\*   stream; c = m XOR key stream; tag = Poly1305(c);
\*   result = epk || tag || c.
\* X25519, BLAKE2b and XSalsa20 work on 255-, 64- and 32-bit words; their
\* values are tabulated from libsodium for the keys of this model.  The
\* small-order test, the XOR, Poly1305 and the layout are computed.

\* a 32-byte string with one low byte: a small little-endian number
LowByte(b) == <<b>> \o Repeat(0, KeyBytes - 1)

\* the u-coordinate 9 of the base point of crypto_scalarmult_base
BasePoint == LowByte(9)

\* The secret keys randombytes can hand to crypto_box_keypair.  Secrets 8 and
\* 12 differ only in bits the scalar multiplication clears and have the same
\* public key.
EphemeralSecret(e) == LowByte(4 * e)

\* The recipients' secret keys.
PrivateScalar(k) == LowByte(8 * k + 64)

\* crypto_scalarmult(n, p): the triples <<n, p, q>> of libsodium for the
\* scalars and the points of this model
ScalarMultTable ==
  {<<<<4, 0, 0, 0, 0, 0, 0, 0, 0, 0, 0, 0, 0, 0, 0, 0, 0, 0, 0, 0, 0, 0, 0,
       0, 0, 0, 0, 0, 0, 0, 0, 0>>,
     <<9, 0, 0, 0, 0, 0, 0, 0, 0, 0, 0, 0, 0, 0, 0, 0, 0, 0, 0, 0, 0, 0, 0,
       0, 0, 0, 0, 0, 0, 0, 0, 0>>,
     <<47, 229, 125, 163, 71, 205, 98, 67, 21, 40, 218, 172, 95, 187, 41,
       7, 48, 255, 246, 132, 175, 196, 207, 194, 237, 144, 153, 95, 88, 203,
       59, 116>> >>,
   <<<<8, 0, 0, 0, 0, 0, 0, 0, 0, 0, 0, 0, 0, 0, 0, 0, 0, 0, 0, 0, 0, 0, 0,
       0, 0, 0, 0, 0, 0, 0, 0, 0>>,
     <<9, 0, 0, 0, 0, 0, 0, 0, 0, 0, 0, 0, 0, 0, 0, 0, 0, 0, 0, 0, 0, 0, 0,
       0, 0, 0, 0, 0, 0, 0, 0, 0>>,
     <<66, 44, 142, 122, 98, 39, 215, 188, 161, 53, 11, 62, 43, 183, 39,
       159, 120, 151, 184, 123, 182, 133, 75, 120, 60, 96, 232, 3, 17, 174,
       48, 121>> >>,
   <<<<12, 0, 0, 0, 0, 0, 0, 0, 0, 0, 0, 0, 0, 0, 0, 0, 0, 0, 0, 0, 0, 0,
       0, 0, 0, 0, 0, 0, 0, 0, 0, 0>>,
     <<9, 0, 0, 0, 0, 0, 0, 0, 0, 0, 0, 0, 0, 0, 0, 0, 0, 0, 0, 0, 0, 0, 0,
       0, 0, 0, 0, 0, 0, 0, 0, 0>>,
     <<66, 44, 142, 122, 98, 39, 215, 188, 161, 53, 11, 62, 43, 183, 39,
       159, 120, 151, 184, 123, 182, 133, 75, 120, 60, 96, 232, 3, 17, 174,
       48, 121>> >>,
   <<<<16, 0, 0, 0, 0, 0, 0, 0, 0, 0, 0, 0, 0, 0, 0, 0, 0, 0, 0, 0, 0, 0,
       0, 0, 0, 0, 0, 0, 0, 0, 0, 0>>,
     <<9, 0, 0, 0, 0, 0, 0, 0, 0, 0, 0, 0, 0, 0, 0, 0, 0, 0, 0, 0, 0, 0, 0,
       0, 0, 0, 0, 0, 0, 0, 0, 0>>,
     <<141, 32, 248, 199, 187, 251, 154, 243, 218, 78, 245, 50, 237, 68,
       239, 198, 140, 230, 66, 188, 93, 12, 92, 177, 215, 185, 27, 150, 199,
       78, 223, 2>> >>,
   <<<<72, 0, 0, 0, 0, 0, 0, 0, 0, 0, 0, 0, 0, 0, 0, 0, 0, 0, 0, 0, 0, 0,
       0, 0, 0, 0, 0, 0, 0, 0, 0, 0>>,
     <<9, 0, 0, 0, 0, 0, 0, 0, 0, 0, 0, 0, 0, 0, 0, 0, 0, 0, 0, 0, 0, 0, 0,
       0, 0, 0, 0, 0, 0, 0, 0, 0>>,
     <<143, 203, 93, 106, 202, 69, 227, 220, 28, 220, 127, 191, 67, 24,
       159, 146, 50, 9, 61, 237, 201, 123, 177, 239, 190, 123, 118, 105, 246,
       211, 16, 87>> >>,
   <<<<80, 0, 0, 0, 0, 0, 0, 0, 0, 0, 0, 0, 0, 0, 0, 0, 0, 0, 0, 0, 0, 0,
       0, 0, 0, 0, 0, 0, 0, 0, 0, 0>>,
     <<9, 0, 0, 0, 0, 0, 0, 0, 0, 0, 0, 0, 0, 0, 0, 0, 0, 0, 0, 0, 0, 0, 0,
       0, 0, 0, 0, 0, 0, 0, 0, 0>>,
     <<165, 170, 121, 240, 107, 255, 242, 224, 205, 177, 100, 45, 152, 171,
       116, 185, 174, 186, 171, 100, 27, 72, 126, 17, 75, 5, 131, 52, 60,
       119, 116, 104>> >>,
   <<<<88, 0, 0, 0, 0, 0, 0, 0, 0, 0, 0, 0, 0, 0, 0, 0, 0, 0, 0, 0, 0, 0,
       0, 0, 0, 0, 0, 0, 0, 0, 0, 0>>,
     <<9, 0, 0, 0, 0, 0, 0, 0, 0, 0, 0, 0, 0, 0, 0, 0, 0, 0, 0, 0, 0, 0, 0,
       0, 0, 0, 0, 0, 0, 0, 0, 0>>,
     <<197, 201, 143, 124, 215, 72, 87, 168, 74, 204, 96, 55, 80, 123, 44,
       138, 48, 80, 236, 105, 211, 34, 43, 146, 60, 109, 124, 175, 242, 215,
       1, 120>> >>,
   <<<<4, 0, 0, 0, 0, 0, 0, 0, 0, 0, 0, 0, 0, 0, 0, 0, 0, 0, 0, 0, 0, 0, 0,
       0, 0, 0, 0, 0, 0, 0, 0, 0>>,
     <<143, 203, 93, 106, 202, 69, 227, 220, 28, 220, 127, 191, 67, 24,
       159, 146, 50, 9, 61, 237, 201, 123, 177, 239, 190, 123, 118, 105, 246,
       211, 16, 87>>,
     <<173, 66, 86, 18, 225, 25, 207, 197, 151, 213, 11, 48, 244, 62, 112,
       148, 102, 125, 155, 64, 31, 224, 102, 164, 196, 94, 71, 39, 207, 31,
       201, 27>> >>,
   <<<<4, 0, 0, 0, 0, 0, 0, 0, 0, 0, 0, 0, 0, 0, 0, 0, 0, 0, 0, 0, 0, 0, 0,
       0, 0, 0, 0, 0, 0, 0, 0, 0>>,
     <<165, 170, 121, 240, 107, 255, 242, 224, 205, 177, 100, 45, 152, 171,
       116, 185, 174, 186, 171, 100, 27, 72, 126, 17, 75, 5, 131, 52, 60,
       119, 116, 104>>,
     <<34, 7, 25, 241, 213, 100, 174, 146, 245, 61, 27, 137, 32, 2, 105,
       29, 70, 65, 221, 104, 182, 112, 17, 31, 250, 43, 70, 172, 30, 183, 58,
       11>> >>,
   <<<<4, 0, 0, 0, 0, 0, 0, 0, 0, 0, 0, 0, 0, 0, 0, 0, 0, 0, 0, 0, 0, 0, 0,
       0, 0, 0, 0, 0, 0, 0, 0, 0>>,
     <<197, 201, 143, 124, 215, 72, 87, 168, 74, 204, 96, 55, 80, 123, 44,
       138, 48, 80, 236, 105, 211, 34, 43, 146, 60, 109, 124, 175, 242, 215,
       1, 120>>,
     <<193, 118, 81, 4, 188, 180, 83, 184, 105, 159, 178, 110, 229, 211,
       208, 160, 106, 239, 161, 34, 191, 177, 72, 130, 107, 121, 186, 13, 88,
       100, 45, 124>> >>,
   <<<<4, 0, 0, 0, 0, 0, 0, 0, 0, 0, 0, 0, 0, 0, 0, 0, 0, 0, 0, 0, 0, 0, 0,
       0, 0, 0, 0, 0, 0, 0, 0, 0>>,
     <<251, 0, 0, 0, 0, 0, 0, 0, 0, 0, 0, 0, 0, 0, 0, 0, 0, 0, 0, 0, 0, 0,
       0, 0, 0, 0, 0, 0, 0, 0, 0, 0>>,
     <<196, 188, 237, 78, 215, 92, 51, 130, 99, 207, 170, 210, 102, 130,
       97, 127, 191, 34, 28, 110, 145, 203, 7, 48, 247, 221, 204, 224, 241,
       43, 159, 114>> >>,
   <<<<8, 0, 0, 0, 0, 0, 0, 0, 0, 0, 0, 0, 0, 0, 0, 0, 0, 0, 0, 0, 0, 0, 0,
       0, 0, 0, 0, 0, 0, 0, 0, 0>>,
     <<143, 203, 93, 106, 202, 69, 227, 220, 28, 220, 127, 191, 67, 24,
       159, 146, 50, 9, 61, 237, 201, 123, 177, 239, 190, 123, 118, 105, 246,
       211, 16, 87>>,
     <<1, 20, 229, 113, 101, 123, 26, 255, 181, 90, 103, 99, 133, 146, 35,
       171, 146, 49, 232, 237, 35, 173, 116, 214, 199, 233, 159, 25, 2, 108,
       213, 10>> >>,
   <<<<8, 0, 0, 0, 0, 0, 0, 0, 0, 0, 0, 0, 0, 0, 0, 0, 0, 0, 0, 0, 0, 0, 0,
       0, 0, 0, 0, 0, 0, 0, 0, 0>>,
     <<165, 170, 121, 240, 107, 255, 242, 224, 205, 177, 100, 45, 152, 171,
       116, 185, 174, 186, 171, 100, 27, 72, 126, 17, 75, 5, 131, 52, 60,
       119, 116, 104>>,
     <<231, 161, 168, 56, 107, 207, 50, 23, 201, 153, 129, 253, 220, 33,
       139, 119, 254, 56, 158, 46, 17, 68, 198, 40, 80, 153, 53, 89, 217,
       240, 124, 107>> >>,
   <<<<8, 0, 0, 0, 0, 0, 0, 0, 0, 0, 0, 0, 0, 0, 0, 0, 0, 0, 0, 0, 0, 0, 0,
       0, 0, 0, 0, 0, 0, 0, 0, 0>>,
     <<197, 201, 143, 124, 215, 72, 87, 168, 74, 204, 96, 55, 80, 123, 44,
       138, 48, 80, 236, 105, 211, 34, 43, 146, 60, 109, 124, 175, 242, 215,
       1, 120>>,
     <<145, 211, 173, 117, 208, 57, 57, 239, 189, 16, 137, 127, 238, 229,
       243, 149, 44, 64, 212, 128, 134, 3, 140, 13, 191, 79, 145, 60, 34,
       195, 21, 30>> >>,
   <<<<8, 0, 0, 0, 0, 0, 0, 0, 0, 0, 0, 0, 0, 0, 0, 0, 0, 0, 0, 0, 0, 0, 0,
       0, 0, 0, 0, 0, 0, 0, 0, 0>>,
     <<251, 0, 0, 0, 0, 0, 0, 0, 0, 0, 0, 0, 0, 0, 0, 0, 0, 0, 0, 0, 0, 0,
       0, 0, 0, 0, 0, 0, 0, 0, 0, 0>>,
     <<22, 214, 73, 142, 11, 197, 51, 113, 150, 26, 141, 125, 128, 137, 7,
       165, 38, 1, 197, 114, 39, 236, 179, 56, 174, 252, 86, 147, 86, 243, 6,
       51>> >>,
   <<<<12, 0, 0, 0, 0, 0, 0, 0, 0, 0, 0, 0, 0, 0, 0, 0, 0, 0, 0, 0, 0, 0,
       0, 0, 0, 0, 0, 0, 0, 0, 0, 0>>,
     <<143, 203, 93, 106, 202, 69, 227, 220, 28, 220, 127, 191, 67, 24,
       159, 146, 50, 9, 61, 237, 201, 123, 177, 239, 190, 123, 118, 105, 246,
       211, 16, 87>>,
     <<1, 20, 229, 113, 101, 123, 26, 255, 181, 90, 103, 99, 133, 146, 35,
       171, 146, 49, 232, 237, 35, 173, 116, 214, 199, 233, 159, 25, 2, 108,
       213, 10>> >>,
   <<<<12, 0, 0, 0, 0, 0, 0, 0, 0, 0, 0, 0, 0, 0, 0, 0, 0, 0, 0, 0, 0, 0,
       0, 0, 0, 0, 0, 0, 0, 0, 0, 0>>,
     <<165, 170, 121, 240, 107, 255, 242, 224, 205, 177, 100, 45, 152, 171,
       116, 185, 174, 186, 171, 100, 27, 72, 126, 17, 75, 5, 131, 52, 60,
       119, 116, 104>>,
     <<231, 161, 168, 56, 107, 207, 50, 23, 201, 153, 129, 253, 220, 33,
       139, 119, 254, 56, 158, 46, 17, 68, 198, 40, 80, 153, 53, 89, 217,
       240, 124, 107>> >>,
   <<<<12, 0, 0, 0, 0, 0, 0, 0, 0, 0, 0, 0, 0, 0, 0, 0, 0, 0, 0, 0, 0, 0,
       0, 0, 0, 0, 0, 0, 0, 0, 0, 0>>,
     <<197, 201, 143, 124, 215, 72, 87, 168, 74, 204, 96, 55, 80, 123, 44,
       138, 48, 80, 236, 105, 211, 34, 43, 146, 60, 109, 124, 175, 242, 215,
       1, 120>>,
     <<145, 211, 173, 117, 208, 57, 57, 239, 189, 16, 137, 127, 238, 229,
       243, 149, 44, 64, 212, 128, 134, 3, 140, 13, 191, 79, 145, 60, 34,
       195, 21, 30>> >>,
   <<<<12, 0, 0, 0, 0, 0, 0, 0, 0, 0, 0, 0, 0, 0, 0, 0, 0, 0, 0, 0, 0, 0,
       0, 0, 0, 0, 0, 0, 0, 0, 0, 0>>,
     <<251, 0, 0, 0, 0, 0, 0, 0, 0, 0, 0, 0, 0, 0, 0, 0, 0, 0, 0, 0, 0, 0,
       0, 0, 0, 0, 0, 0, 0, 0, 0, 0>>,
     <<22, 214, 73, 142, 11, 197, 51, 113, 150, 26, 141, 125, 128, 137, 7,
       165, 38, 1, 197, 114, 39, 236, 179, 56, 174, 252, 86, 147, 86, 243, 6,
       51>> >>,
   <<<<16, 0, 0, 0, 0, 0, 0, 0, 0, 0, 0, 0, 0, 0, 0, 0, 0, 0, 0, 0, 0, 0,
       0, 0, 0, 0, 0, 0, 0, 0, 0, 0>>,
     <<143, 203, 93, 106, 202, 69, 227, 220, 28, 220, 127, 191, 67, 24,
       159, 146, 50, 9, 61, 237, 201, 123, 177, 239, 190, 123, 118, 105, 246,
       211, 16, 87>>,
     <<47, 234, 16, 247, 151, 150, 234, 209, 194, 91, 112, 41, 245, 68, 58,
       221, 139, 12, 187, 17, 209, 189, 174, 5, 63, 130, 128, 148, 169, 54,
       83, 59>> >>,
   <<<<16, 0, 0, 0, 0, 0, 0, 0, 0, 0, 0, 0, 0, 0, 0, 0, 0, 0, 0, 0, 0, 0,
       0, 0, 0, 0, 0, 0, 0, 0, 0, 0>>,
     <<165, 170, 121, 240, 107, 255, 242, 224, 205, 177, 100, 45, 152, 171,
       116, 185, 174, 186, 171, 100, 27, 72, 126, 17, 75, 5, 131, 52, 60,
       119, 116, 104>>,
     <<203, 219, 62, 16, 25, 191, 250, 195, 72, 97, 122, 164, 4, 179, 17,
       61, 100, 20, 27, 150, 56, 84, 81, 37, 74, 195, 138, 239, 217, 108, 92,
       82>> >>,
   <<<<16, 0, 0, 0, 0, 0, 0, 0, 0, 0, 0, 0, 0, 0, 0, 0, 0, 0, 0, 0, 0, 0,
       0, 0, 0, 0, 0, 0, 0, 0, 0, 0>>,
     <<197, 201, 143, 124, 215, 72, 87, 168, 74, 204, 96, 55, 80, 123, 44,
       138, 48, 80, 236, 105, 211, 34, 43, 146, 60, 109, 124, 175, 242, 215,
       1, 120>>,
     <<73, 136, 227, 93, 32, 58, 206, 219, 41, 151, 236, 188, 24, 198, 174,
       170, 168, 117, 163, 182, 167, 211, 55, 54, 191, 82, 136, 82, 88, 240,
       5, 85>> >>,
   <<<<16, 0, 0, 0, 0, 0, 0, 0, 0, 0, 0, 0, 0, 0, 0, 0, 0, 0, 0, 0, 0, 0,
       0, 0, 0, 0, 0, 0, 0, 0, 0, 0>>,
     <<251, 0, 0, 0, 0, 0, 0, 0, 0, 0, 0, 0, 0, 0, 0, 0, 0, 0, 0, 0, 0, 0,
       0, 0, 0, 0, 0, 0, 0, 0, 0, 0>>,
     <<19, 62, 56, 113, 166, 129, 32, 72, 44, 129, 230, 75, 238, 154, 132,
       139, 97, 179, 80, 215, 33, 108, 148, 177, 89, 130, 159, 205, 120, 100,
       149, 32>> >>,
   <<<<72, 0, 0, 0, 0, 0, 0, 0, 0, 0, 0, 0, 0, 0, 0, 0, 0, 0, 0, 0, 0, 0,
       0, 0, 0, 0, 0, 0, 0, 0, 0, 0>>,
     <<47, 229, 125, 163, 71, 205, 98, 67, 21, 40, 218, 172, 95, 187, 41,
       7, 48, 255, 246, 132, 175, 196, 207, 194, 237, 144, 153, 95, 88, 203,
       59, 116>>,
     <<173, 66, 86, 18, 225, 25, 207, 197, 151, 213, 11, 48, 244, 62, 112,
       148, 102, 125, 155, 64, 31, 224, 102, 164, 196, 94, 71, 39, 207, 31,
       201, 27>> >>,
   <<<<72, 0, 0, 0, 0, 0, 0, 0, 0, 0, 0, 0, 0, 0, 0, 0, 0, 0, 0, 0, 0, 0,
       0, 0, 0, 0, 0, 0, 0, 0, 0, 0>>,
     <<66, 44, 142, 122, 98, 39, 215, 188, 161, 53, 11, 62, 43, 183, 39,
       159, 120, 151, 184, 123, 182, 133, 75, 120, 60, 96, 232, 3, 17, 174,
       48, 121>>,
     <<1, 20, 229, 113, 101, 123, 26, 255, 181, 90, 103, 99, 133, 146, 35,
       171, 146, 49, 232, 237, 35, 173, 116, 214, 199, 233, 159, 25, 2, 108,
       213, 10>> >>,
   <<<<72, 0, 0, 0, 0, 0, 0, 0, 0, 0, 0, 0, 0, 0, 0, 0, 0, 0, 0, 0, 0, 0,
       0, 0, 0, 0, 0, 0, 0, 0, 0, 0>>,
     <<141, 32, 248, 199, 187, 251, 154, 243, 218, 78, 245, 50, 237, 68,
       239, 198, 140, 230, 66, 188, 93, 12, 92, 177, 215, 185, 27, 150, 199,
       78, 223, 2>>,
     <<47, 234, 16, 247, 151, 150, 234, 209, 194, 91, 112, 41, 245, 68, 58,
       221, 139, 12, 187, 17, 209, 189, 174, 5, 63, 130, 128, 148, 169, 54,
       83, 59>> >>,
   <<<<80, 0, 0, 0, 0, 0, 0, 0, 0, 0, 0, 0, 0, 0, 0, 0, 0, 0, 0, 0, 0, 0,
       0, 0, 0, 0, 0, 0, 0, 0, 0, 0>>,
     <<47, 229, 125, 163, 71, 205, 98, 67, 21, 40, 218, 172, 95, 187, 41,
       7, 48, 255, 246, 132, 175, 196, 207, 194, 237, 144, 153, 95, 88, 203,
       59, 116>>,
     <<34, 7, 25, 241, 213, 100, 174, 146, 245, 61, 27, 137, 32, 2, 105,
       29, 70, 65, 221, 104, 182, 112, 17, 31, 250, 43, 70, 172, 30, 183, 58,
       11>> >>,
   <<<<80, 0, 0, 0, 0, 0, 0, 0, 0, 0, 0, 0, 0, 0, 0, 0, 0, 0, 0, 0, 0, 0,
       0, 0, 0, 0, 0, 0, 0, 0, 0, 0>>,
     <<66, 44, 142, 122, 98, 39, 215, 188, 161, 53, 11, 62, 43, 183, 39,
       159, 120, 151, 184, 123, 182, 133, 75, 120, 60, 96, 232, 3, 17, 174,
       48, 121>>,
     <<231, 161, 168, 56, 107, 207, 50, 23, 201, 153, 129, 253, 220, 33,
       139, 119, 254, 56, 158, 46, 17, 68, 198, 40, 80, 153, 53, 89, 217,
       240, 124, 107>> >>,
   <<<<80, 0, 0, 0, 0, 0, 0, 0, 0, 0, 0, 0, 0, 0, 0, 0, 0, 0, 0, 0, 0, 0,
       0, 0, 0, 0, 0, 0, 0, 0, 0, 0>>,
     <<141, 32, 248, 199, 187, 251, 154, 243, 218, 78, 245, 50, 237, 68,
       239, 198, 140, 230, 66, 188, 93, 12, 92, 177, 215, 185, 27, 150, 199,
       78, 223, 2>>,
     <<203, 219, 62, 16, 25, 191, 250, 195, 72, 97, 122, 164, 4, 179, 17,
       61, 100, 20, 27, 150, 56, 84, 81, 37, 74, 195, 138, 239, 217, 108, 92,
       82>> >>,
   <<<<88, 0, 0, 0, 0, 0, 0, 0, 0, 0, 0, 0, 0, 0, 0, 0, 0, 0, 0, 0, 0, 0,
       0, 0, 0, 0, 0, 0, 0, 0, 0, 0>>,
     <<47, 229, 125, 163, 71, 205, 98, 67, 21, 40, 218, 172, 95, 187, 41,
       7, 48, 255, 246, 132, 175, 196, 207, 194, 237, 144, 153, 95, 88, 203,
       59, 116>>,
     <<193, 118, 81, 4, 188, 180, 83, 184, 105, 159, 178, 110, 229, 211,
       208, 160, 106, 239, 161, 34, 191, 177, 72, 130, 107, 121, 186, 13, 88,
       100, 45, 124>> >>,
   <<<<88, 0, 0, 0, 0, 0, 0, 0, 0, 0, 0, 0, 0, 0, 0, 0, 0, 0, 0, 0, 0, 0,
       0, 0, 0, 0, 0, 0, 0, 0, 0, 0>>,
     <<66, 44, 142, 122, 98, 39, 215, 188, 161, 53, 11, 62, 43, 183, 39,
       159, 120, 151, 184, 123, 182, 133, 75, 120, 60, 96, 232, 3, 17, 174,
       48, 121>>,
     <<145, 211, 173, 117, 208, 57, 57, 239, 189, 16, 137, 127, 238, 229,
       243, 149, 44, 64, 212, 128, 134, 3, 140, 13, 191, 79, 145, 60, 34,
       195, 21, 30>> >>,
   <<<<88, 0, 0, 0, 0, 0, 0, 0, 0, 0, 0, 0, 0, 0, 0, 0, 0, 0, 0, 0, 0, 0,
       0, 0, 0, 0, 0, 0, 0, 0, 0, 0>>,
     <<141, 32, 248, 199, 187, 251, 154, 243, 218, 78, 245, 50, 237, 68,
       239, 198, 140, 230, 66, 188, 93, 12, 92, 177, 215, 185, 27, 150, 199,
       78, 223, 2>>,
     <<73, 136, 227, 93, 32, 58, 206, 219, 41, 151, 236, 188, 24, 198, 174,
       170, 168, 117, 163, 182, 167, 211, 55, 54, 191, 82, 136, 82, 88, 240,
       5, 85>> >>}

\* the nonce of a sealed box, BLAKE2b-24 of the two public keys: the
\* triples <<epk, pk, nonce>>
SealNonceTable ==
  {<<<<47, 229, 125, 163, 71, 205, 98, 67, 21, 40, 218, 172, 95, 187, 41,
       7, 48, 255, 246, 132, 175, 196, 207, 194, 237, 144, 153, 95, 88, 203,
       59, 116>>,
     <<143, 203, 93, 106, 202, 69, 227, 220, 28, 220, 127, 191, 67, 24,
       159, 146, 50, 9, 61, 237, 201, 123, 177, 239, 190, 123, 118, 105, 246,
       211, 16, 87>>,
     <<221, 65, 124, 65, 200, 192, 82, 62, 148, 252, 180, 166, 198, 3, 45,
       179, 40, 139, 156, 255, 7, 210, 137, 160>> >>,
   <<<<47, 229, 125, 163, 71, 205, 98, 67, 21, 40, 218, 172, 95, 187, 41,
       7, 48, 255, 246, 132, 175, 196, 207, 194, 237, 144, 153, 95, 88, 203,
       59, 116>>,
     <<165, 170, 121, 240, 107, 255, 242, 224, 205, 177, 100, 45, 152, 171,
       116, 185, 174, 186, 171, 100, 27, 72, 126, 17, 75, 5, 131, 52, 60,
       119, 116, 104>>,
     <<93, 245, 43, 253, 153, 120, 199, 26, 210, 9, 96, 55, 230, 88, 36,
       127, 158, 220, 1, 121, 153, 92, 115, 245>> >>,
   <<<<47, 229, 125, 163, 71, 205, 98, 67, 21, 40, 218, 172, 95, 187, 41,
       7, 48, 255, 246, 132, 175, 196, 207, 194, 237, 144, 153, 95, 88, 203,
       59, 116>>,
     <<197, 201, 143, 124, 215, 72, 87, 168, 74, 204, 96, 55, 80, 123, 44,
       138, 48, 80, 236, 105, 211, 34, 43, 146, 60, 109, 124, 175, 242, 215,
       1, 120>>,
     <<233, 195, 32, 115, 216, 145, 65, 40, 133, 110, 14, 97, 68, 18, 241,
       53, 94, 180, 136, 252, 181, 82, 123, 93>> >>,
   <<<<47, 229, 125, 163, 71, 205, 98, 67, 21, 40, 218, 172, 95, 187, 41,
       7, 48, 255, 246, 132, 175, 196, 207, 194, 237, 144, 153, 95, 88, 203,
       59, 116>>,
     <<251, 0, 0, 0, 0, 0, 0, 0, 0, 0, 0, 0, 0, 0, 0, 0, 0, 0, 0, 0, 0, 0,
       0, 0, 0, 0, 0, 0, 0, 0, 0, 0>>,
     <<77, 195, 147, 97, 62, 199, 248, 205, 155, 187, 27, 224, 19, 37, 172,
       35, 40, 172, 13, 204, 16, 79, 231, 195>> >>,
   <<<<66, 44, 142, 122, 98, 39, 215, 188, 161, 53, 11, 62, 43, 183, 39,
       159, 120, 151, 184, 123, 182, 133, 75, 120, 60, 96, 232, 3, 17, 174,
       48, 121>>,
     <<143, 203, 93, 106, 202, 69, 227, 220, 28, 220, 127, 191, 67, 24,
       159, 146, 50, 9, 61, 237, 201, 123, 177, 239, 190, 123, 118, 105, 246,
       211, 16, 87>>,
     <<250, 247, 106, 38, 62, 130, 83, 195, 242, 200, 121, 188, 156, 78,
       145, 17, 137, 121, 41, 29, 124, 57, 68, 242>> >>,
   <<<<66, 44, 142, 122, 98, 39, 215, 188, 161, 53, 11, 62, 43, 183, 39,
       159, 120, 151, 184, 123, 182, 133, 75, 120, 60, 96, 232, 3, 17, 174,
       48, 121>>,
     <<165, 170, 121, 240, 107, 255, 242, 224, 205, 177, 100, 45, 152, 171,
       116, 185, 174, 186, 171, 100, 27, 72, 126, 17, 75, 5, 131, 52, 60,
       119, 116, 104>>,
     <<132, 183, 118, 79, 255, 93, 114, 233, 227, 224, 69, 0, 148, 36, 66,
       180, 162, 87, 65, 9, 207, 166, 223, 197>> >>,
   <<<<66, 44, 142, 122, 98, 39, 215, 188, 161, 53, 11, 62, 43, 183, 39,
       159, 120, 151, 184, 123, 182, 133, 75, 120, 60, 96, 232, 3, 17, 174,
       48, 121>>,
     <<197, 201, 143, 124, 215, 72, 87, 168, 74, 204, 96, 55, 80, 123, 44,
       138, 48, 80, 236, 105, 211, 34, 43, 146, 60, 109, 124, 175, 242, 215,
       1, 120>>,
     <<87, 30, 130, 73, 91, 111, 225, 86, 142, 105, 187, 42, 88, 119, 56,
       218, 223, 219, 221, 245, 32, 129, 203, 96>> >>,
   <<<<66, 44, 142, 122, 98, 39, 215, 188, 161, 53, 11, 62, 43, 183, 39,
       159, 120, 151, 184, 123, 182, 133, 75, 120, 60, 96, 232, 3, 17, 174,
       48, 121>>,
     <<251, 0, 0, 0, 0, 0, 0, 0, 0, 0, 0, 0, 0, 0, 0, 0, 0, 0, 0, 0, 0, 0,
       0, 0, 0, 0, 0, 0, 0, 0, 0, 0>>,
     <<128, 158, 219, 140, 36, 65, 77, 87, 81, 30, 121, 42, 56, 16, 234, 5,
       156, 44, 97, 122, 219, 123, 241, 158>> >>,
   <<<<141, 32, 248, 199, 187, 251, 154, 243, 218, 78, 245, 50, 237, 68,
       239, 198, 140, 230, 66, 188, 93, 12, 92, 177, 215, 185, 27, 150, 199,
       78, 223, 2>>,
     <<143, 203, 93, 106, 202, 69, 227, 220, 28, 220, 127, 191, 67, 24,
       159, 146, 50, 9, 61, 237, 201, 123, 177, 239, 190, 123, 118, 105, 246,
       211, 16, 87>>,
     <<71, 17, 248, 97, 196, 37, 22, 135, 163, 116, 30, 79, 2, 175, 189,
       180, 69, 207, 68, 130, 130, 5, 158, 109>> >>,
   <<<<141, 32, 248, 199, 187, 251, 154, 243, 218, 78, 245, 50, 237, 68,
       239, 198, 140, 230, 66, 188, 93, 12, 92, 177, 215, 185, 27, 150, 199,
       78, 223, 2>>,
     <<165, 170, 121, 240, 107, 255, 242, 224, 205, 177, 100, 45, 152, 171,
       116, 185, 174, 186, 171, 100, 27, 72, 126, 17, 75, 5, 131, 52, 60,
       119, 116, 104>>,
     <<76, 87, 176, 37, 42, 103, 124, 241, 94, 80, 188, 237, 29, 51, 60,
       255, 104, 4, 138, 7, 39, 1, 74, 88>> >>,
   <<<<141, 32, 248, 199, 187, 251, 154, 243, 218, 78, 245, 50, 237, 68,
       239, 198, 140, 230, 66, 188, 93, 12, 92, 177, 215, 185, 27, 150, 199,
       78, 223, 2>>,
     <<197, 201, 143, 124, 215, 72, 87, 168, 74, 204, 96, 55, 80, 123, 44,
       138, 48, 80, 236, 105, 211, 34, 43, 146, 60, 109, 124, 175, 242, 215,
       1, 120>>,
     <<181, 94, 79, 243, 196, 222, 191, 35, 166, 49, 250, 6, 117, 48, 253,
       23, 35, 111, 43, 20, 98, 209, 2, 78>> >>,
   <<<<141, 32, 248, 199, 187, 251, 154, 243, 218, 78, 245, 50, 237, 68,
       239, 198, 140, 230, 66, 188, 93, 12, 92, 177, 215, 185, 27, 150, 199,
       78, 223, 2>>,
     <<251, 0, 0, 0, 0, 0, 0, 0, 0, 0, 0, 0, 0, 0, 0, 0, 0, 0, 0, 0, 0, 0,
       0, 0, 0, 0, 0, 0, 0, 0, 0, 0>>,
     <<74, 233, 49, 48, 50, 74, 119, 99, 225, 206, 39, 155, 149, 176, 91,
       155, 173, 217, 158, 97, 198, 179, 193, 98>> >>}

\* crypto_core_hsalsa20(zero, s), the key crypto_box_beforenm derives from
\* the shared point s: the pairs <<s, k>>
HSalsa20Table ==
  {<<<<173, 66, 86, 18, 225, 25, 207, 197, 151, 213, 11, 48, 244, 62, 112,
       148, 102, 125, 155, 64, 31, 224, 102, 164, 196, 94, 71, 39, 207, 31,
       201, 27>>,
     <<84, 61, 7, 44, 217, 152, 200, 42, 24, 163, 183, 176, 232, 164, 182,
       29, 3, 79, 151, 95, 49, 125, 203, 166, 152, 188, 61, 170, 18, 79, 12,
       155>> >>,
   <<<<34, 7, 25, 241, 213, 100, 174, 146, 245, 61, 27, 137, 32, 2, 105,
       29, 70, 65, 221, 104, 182, 112, 17, 31, 250, 43, 70, 172, 30, 183, 58,
       11>>,
     <<125, 232, 233, 178, 58, 168, 50, 191, 198, 133, 232, 135, 22, 242,
       97, 157, 12, 245, 50, 73, 95, 12, 122, 99, 241, 102, 47, 79, 139, 119,
       77, 81>> >>,
   <<<<193, 118, 81, 4, 188, 180, 83, 184, 105, 159, 178, 110, 229, 211,
       208, 160, 106, 239, 161, 34, 191, 177, 72, 130, 107, 121, 186, 13, 88,
       100, 45, 124>>,
     <<89, 118, 246, 30, 76, 77, 28, 125, 10, 48, 244, 57, 246, 221, 105,
       218, 6, 145, 165, 191, 230, 164, 174, 84, 118, 137, 131, 29, 212, 23,
       81, 123>> >>,
   <<<<196, 188, 237, 78, 215, 92, 51, 130, 99, 207, 170, 210, 102, 130,
       97, 127, 191, 34, 28, 110, 145, 203, 7, 48, 247, 221, 204, 224, 241,
       43, 159, 114>>,
     <<201, 185, 169, 171, 12, 134, 9, 170, 59, 46, 11, 141, 152, 134, 232,
       204, 105, 83, 48, 54, 56, 37, 37, 113, 224, 205, 211, 117, 133, 132,
       76, 16>> >>,
   <<<<1, 20, 229, 113, 101, 123, 26, 255, 181, 90, 103, 99, 133, 146, 35,
       171, 146, 49, 232, 237, 35, 173, 116, 214, 199, 233, 159, 25, 2, 108,
       213, 10>>,
     <<238, 230, 189, 236, 144, 48, 129, 160, 83, 121, 125, 242, 57, 0,
       213, 4, 255, 114, 149, 12, 30, 35, 107, 26, 0, 184, 58, 189, 207, 209,
       169, 3>> >>,
   <<<<231, 161, 168, 56, 107, 207, 50, 23, 201, 153, 129, 253, 220, 33,
       139, 119, 254, 56, 158, 46, 17, 68, 198, 40, 80, 153, 53, 89, 217,
       240, 124, 107>>,
     <<181, 2, 243, 182, 0, 14, 148, 98, 123, 15, 198, 142, 132, 167, 176,
       19, 152, 2, 15, 90, 101, 221, 69, 40, 175, 120, 67, 80, 80, 120, 75,
       46>> >>,
   <<<<145, 211, 173, 117, 208, 57, 57, 239, 189, 16, 137, 127, 238, 229,
       243, 149, 44, 64, 212, 128, 134, 3, 140, 13, 191, 79, 145, 60, 34,
       195, 21, 30>>,
     <<253, 188, 94, 213, 178, 229, 179, 3, 250, 119, 58, 249, 230, 178,
       214, 190, 100, 9, 158, 163, 150, 105, 212, 3, 162, 196, 1, 143, 105,
       35, 130, 41>> >>,
   <<<<22, 214, 73, 142, 11, 197, 51, 113, 150, 26, 141, 125, 128, 137, 7,
       165, 38, 1, 197, 114, 39, 236, 179, 56, 174, 252, 86, 147, 86, 243, 6,
       51>>,
     <<128, 146, 111, 69, 243, 235, 91, 225, 220, 68, 251, 61, 41, 148,
       176, 83, 80, 190, 222, 180, 0, 211, 225, 250, 210, 158, 76, 3, 238,
       134, 194, 182>> >>,
   <<<<47, 234, 16, 247, 151, 150, 234, 209, 194, 91, 112, 41, 245, 68, 58,
       221, 139, 12, 187, 17, 209, 189, 174, 5, 63, 130, 128, 148, 169, 54,
       83, 59>>,
     <<235, 230, 236, 204, 0, 191, 56, 218, 194, 87, 104, 250, 236, 78, 43,
       140, 103, 33, 141, 49, 4, 143, 83, 152, 66, 191, 180, 165, 241, 56,
       147, 215>> >>,
   <<<<203, 219, 62, 16, 25, 191, 250, 195, 72, 97, 122, 164, 4, 179, 17,
       61, 100, 20, 27, 150, 56, 84, 81, 37, 74, 195, 138, 239, 217, 108, 92,
       82>>,
     <<207, 23, 73, 246, 148, 126, 33, 220, 141, 253, 101, 173, 211, 224,
       49, 94, 58, 171, 68, 17, 223, 212, 41, 48, 210, 179, 207, 169, 124,
       253, 62, 189>> >>,
   <<<<73, 136, 227, 93, 32, 58, 206, 219, 41, 151, 236, 188, 24, 198, 174,
       170, 168, 117, 163, 182, 167, 211, 55, 54, 191, 82, 136, 82, 88, 240,
       5, 85>>,
     <<94, 209, 125, 8, 221, 140, 110, 55, 119, 43, 186, 127, 193, 55, 70,
       26, 175, 68, 186, 3, 213, 244, 146, 208, 132, 14, 132, 189, 97, 45,
       186, 168>> >>,
   <<<<19, 62, 56, 113, 166, 129, 32, 72, 44, 129, 230, 75, 238, 154, 132,
       139, 97, 179, 80, 215, 33, 108, 148, 177, 89, 130, 159, 205, 120, 100,
       149, 32>>,
     <<243, 65, 249, 44, 28, 213, 226, 73, 21, 246, 20, 65, 9, 145, 28, 54,
       62, 5, 252, 61, 44, 143, 143, 189, 37, 123, 5, 128, 72, 184, 100,
       15>> >>}

\* crypto_stream_xsalsa20(k, nonce), its first 48 bytes: the triples
\* <<k, nonce, stream>>
StreamTable ==
  {<<<<84, 61, 7, 44, 217, 152, 200, 42, 24, 163, 183, 176, 232, 164, 182,
       29, 3, 79, 151, 95, 49, 125, 203, 166, 152, 188, 61, 170, 18, 79, 12,
       155>>,
     <<221, 65, 124, 65, 200, 192, 82, 62, 148, 252, 180, 166, 198, 3, 45,
       179, 40, 139, 156, 255, 7, 210, 137, 160>>,
     <<176, 19, 45, 139, 161, 47, 116, 238, 141, 96, 80, 74, 43, 131, 72,
       26, 5, 19, 129, 66, 156, 16, 114, 197, 184, 149, 175, 154, 161, 132,
       198, 117, 13, 181, 7, 168, 143, 218, 55, 159, 35, 84, 35, 83, 64, 110,
       5, 239>> >>,
   <<<<125, 232, 233, 178, 58, 168, 50, 191, 198, 133, 232, 135, 22, 242,
       97, 157, 12, 245, 50, 73, 95, 12, 122, 99, 241, 102, 47, 79, 139, 119,
       77, 81>>,
     <<93, 245, 43, 253, 153, 120, 199, 26, 210, 9, 96, 55, 230, 88, 36,
       127, 158, 220, 1, 121, 153, 92, 115, 245>>,
     <<250, 240, 193, 80, 202, 101, 29, 181, 86, 82, 221, 200, 63, 93, 106,
       255, 34, 148, 167, 219, 91, 214, 117, 144, 70, 188, 249, 87, 17, 42,
       89, 55, 157, 24, 251, 69, 2, 115, 5, 88, 115, 145, 94, 31, 64, 8, 181,
       228>> >>,
   <<<<89, 118, 246, 30, 76, 77, 28, 125, 10, 48, 244, 57, 246, 221, 105,
       218, 6, 145, 165, 191, 230, 164, 174, 84, 118, 137, 131, 29, 212, 23,
       81, 123>>,
     <<233, 195, 32, 115, 216, 145, 65, 40, 133, 110, 14, 97, 68, 18, 241,
       53, 94, 180, 136, 252, 181, 82, 123, 93>>,
     <<198, 229, 222, 103, 52, 111, 52, 250, 84, 34, 147, 112, 9, 220, 227,
       154, 90, 53, 51, 37, 97, 183, 246, 21, 105, 12, 2, 94, 33, 85, 89,
       154, 119, 142, 7, 177, 107, 68, 14, 9, 41, 62, 29, 156, 179, 159, 209,
       230>> >>,
   <<<<201, 185, 169, 171, 12, 134, 9, 170, 59, 46, 11, 141, 152, 134, 232,
       204, 105, 83, 48, 54, 56, 37, 37, 113, 224, 205, 211, 117, 133, 132,
       76, 16>>,
     <<77, 195, 147, 97, 62, 199, 248, 205, 155, 187, 27, 224, 19, 37, 172,
       35, 40, 172, 13, 204, 16, 79, 231, 195>>,
     <<30, 190, 41, 0, 188, 131, 237, 46, 179, 183, 141, 116, 161, 133, 21,
       87, 132, 88, 16, 52, 61, 103, 100, 86, 137, 194, 112, 143, 31, 125,
       24, 136, 13, 160, 78, 117, 213, 38, 177, 149, 126, 51, 225, 151, 52,
       181, 107, 183>> >>,
   <<<<238, 230, 189, 236, 144, 48, 129, 160, 83, 121, 125, 242, 57, 0,
       213, 4, 255, 114, 149, 12, 30, 35, 107, 26, 0, 184, 58, 189, 207, 209,
       169, 3>>,
     <<250, 247, 106, 38, 62, 130, 83, 195, 242, 200, 121, 188, 156, 78,
       145, 17, 137, 121, 41, 29, 124, 57, 68, 242>>,
     <<202, 33, 124, 47, 198, 191, 213, 28, 100, 254, 228, 13, 247, 83,
       183, 132, 24, 65, 139, 216, 47, 99, 241, 224, 192, 154, 111, 151, 230,
       213, 193, 248, 60, 108, 250, 170, 93, 145, 172, 97, 21, 57, 135, 143,
       73, 223, 2, 188>> >>,
   <<<<181, 2, 243, 182, 0, 14, 148, 98, 123, 15, 198, 142, 132, 167, 176,
       19, 152, 2, 15, 90, 101, 221, 69, 40, 175, 120, 67, 80, 80, 120, 75,
       46>>,
     <<132, 183, 118, 79, 255, 93, 114, 233, 227, 224, 69, 0, 148, 36, 66,
       180, 162, 87, 65, 9, 207, 166, 223, 197>>,
     <<103, 74, 148, 189, 86, 140, 139, 235, 4, 59, 27, 204, 210, 88, 23,
       245, 220, 57, 177, 131, 96, 232, 112, 79, 167, 121, 97, 159, 186, 8,
       235, 201, 171, 115, 30, 207, 62, 21, 8, 2, 229, 30, 75, 4, 217, 186,
       25, 89>> >>,
   <<<<253, 188, 94, 213, 178, 229, 179, 3, 250, 119, 58, 249, 230, 178,
       214, 190, 100, 9, 158, 163, 150, 105, 212, 3, 162, 196, 1, 143, 105,
       35, 130, 41>>,
     <<87, 30, 130, 73, 91, 111, 225, 86, 142, 105, 187, 42, 88, 119, 56,
       218, 223, 219, 221, 245, 32, 129, 203, 96>>,
     <<234, 162, 171, 57, 26, 86, 55, 38, 64, 24, 129, 21, 244, 177, 101,
       137, 188, 146, 166, 166, 93, 194, 185, 109, 102, 251, 133, 174, 179,
       237, 33, 119, 38, 226, 129, 101, 126, 55, 11, 17, 109, 32, 195, 37,
       222, 47, 195, 240>> >>,
   <<<<128, 146, 111, 69, 243, 235, 91, 225, 220, 68, 251, 61, 41, 148,
       176, 83, 80, 190, 222, 180, 0, 211, 225, 250, 210, 158, 76, 3, 238,
       134, 194, 182>>,
     <<128, 158, 219, 140, 36, 65, 77, 87, 81, 30, 121, 42, 56, 16, 234, 5,
       156, 44, 97, 122, 219, 123, 241, 158>>,
     <<98, 142, 44, 224, 136, 180, 65, 201, 87, 25, 197, 237, 157, 178,
       229, 143, 245, 183, 252, 113, 110, 115, 72, 145, 17, 48, 72, 12, 170,
       232, 196, 9, 254, 75, 244, 88, 139, 26, 160, 51, 94, 185, 107, 39,
       118, 162, 155, 128>> >>,
   <<<<235, 230, 236, 204, 0, 191, 56, 218, 194, 87, 104, 250, 236, 78, 43,
       140, 103, 33, 141, 49, 4, 143, 83, 152, 66, 191, 180, 165, 241, 56,
       147, 215>>,
     <<71, 17, 248, 97, 196, 37, 22, 135, 163, 116, 30, 79, 2, 175, 189,
       180, 69, 207, 68, 130, 130, 5, 158, 109>>,
     <<194, 182, 66, 4, 60, 70, 166, 78, 90, 172, 190, 237, 3, 114, 214,
       52, 123, 24, 88, 168, 23, 42, 28, 227, 71, 189, 33, 176, 148, 29, 85,
       108, 39, 66, 55, 82, 130, 244, 28, 71, 176, 231, 91, 46, 236, 181, 54,
       119>> >>,
   <<<<207, 23, 73, 246, 148, 126, 33, 220, 141, 253, 101, 173, 211, 224,
       49, 94, 58, 171, 68, 17, 223, 212, 41, 48, 210, 179, 207, 169, 124,
       253, 62, 189>>,
     <<76, 87, 176, 37, 42, 103, 124, 241, 94, 80, 188, 237, 29, 51, 60,
       255, 104, 4, 138, 7, 39, 1, 74, 88>>,
     <<93, 74, 238, 67, 25, 54, 81, 6, 137, 211, 73, 231, 181, 159, 64,
       124, 243, 155, 132, 52, 175, 132, 76, 213, 150, 144, 149, 26, 10, 221,
       230, 84, 23, 222, 188, 130, 2, 78, 227, 103, 231, 22, 87, 39, 229,
       189, 64, 8>> >>,
   <<<<94, 209, 125, 8, 221, 140, 110, 55, 119, 43, 186, 127, 193, 55, 70,
       26, 175, 68, 186, 3, 213, 244, 146, 208, 132, 14, 132, 189, 97, 45,
       186, 168>>,
     <<181, 94, 79, 243, 196, 222, 191, 35, 166, 49, 250, 6, 117, 48, 253,
       23, 35, 111, 43, 20, 98, 209, 2, 78>>,
     <<183, 21, 40, 141, 40, 109, 237, 189, 166, 39, 20, 197, 183, 20, 198,
       230, 37, 52, 95, 91, 78, 12, 9, 60, 226, 14, 129, 37, 157, 200, 253,
       99, 104, 253, 80, 155, 3, 128, 149, 118, 93, 236, 18, 47, 114, 4, 197,
       77>> >>,
   <<<<243, 65, 249, 44, 28, 213, 226, 73, 21, 246, 20, 65, 9, 145, 28, 54,
       62, 5, 252, 61, 44, 143, 143, 189, 37, 123, 5, 128, 72, 184, 100,
       15>>,
     <<74, 233, 49, 48, 50, 74, 119, 99, 225, 206, 39, 155, 149, 176, 91,
       155, 173, 217, 158, 97, 198, 179, 193, 98>>,
     <<134, 49, 244, 107, 181, 18, 25, 1, 220, 253, 91, 188, 94, 10, 116,
       37, 17, 227, 212, 251, 196, 29, 106, 204, 161, 8, 92, 22, 241, 48,
       219, 234, 156, 236, 193, 180, 119, 13, 236, 171, 26, 8, 123, 133, 65,
       141, 51, 3>> >>}

\* the value a table of pairs or triples gives for the key key
LookupIn(a) ==
  (CHOOSE t \in a[1] : SubSeq(t, 1, Len(t) - 1) = a[2])[Len(a[2]) + 1]

Lookup(table, key) == Once(LookupIn, <<table, key>>)

\* crypto_scalarmult(n, p) and crypto_scalarmult_base(n)
ScalarMult(n, p) == Lookup(ScalarMultTable, <<n, p>>)
ScalarMultBase(n) == ScalarMult(n, BasePoint)

\* The u-coordinates of the points of order 1, 2, 4 and 8 (0, 1, two points
\* of order 8, p - 1) and the other encodings of 0 and 1 below 2^255 (p and
\* p + 1), for p = 2^255 - 19.
SmallOrderPoints ==
  {LowByte(0),
   LowByte(1),
   <<224, 235, 122, 124, 59, 65, 184, 174, 22, 86, 227, 250, 241, 159, 196,
     106, 218, 9, 141, 235, 156, 50, 177, 253, 134, 98, 5, 22, 95, 73, 184, 0>>,
   <<95, 156, 149, 188, 163, 80, 140, 36, 177, 208, 177, 85, 156, 131, 239,
     91, 4, 68, 92, 196, 88, 28, 142, 134, 216, 34, 78, 221, 208, 159, 17,
     87>>,
   <<236>> \o Repeat(255, KeyBytes - 2) \o <<127>>,
   <<237>> \o Repeat(255, KeyBytes - 2) \o <<127>>,
   <<238>> \o Repeat(255, KeyBytes - 2) \o <<127>>}

\* crypto_scalarmult returns -1 for these points, whose multiples by a
\* clamped scalar are all zero; the top bit of the last byte is ignored.
HasSmallOrder(P) ==
  [i \in 1..KeyBytes |-> IF i = KeyBytes THEN P[i] % 128 ELSE P[i]]
    \in SmallOrderPoints

\* _crypto_box_seal_nonce(epk, pk)
SealNonce(epk, pk) == Lookup(SealNonceTable, <<epk, pk>>)

\* crypto_box_beforenm, after the scalar multiplication
BoxBeforeNm(s) == Lookup(HSalsa20Table, <<s>>)

\* crypto_stream_xsalsa20
KeyStream(k, n) == Lookup(StreamTable, <<k, n>>)

\* a XOR b for two bytes
Xor8(a, b) ==
  ((a + b) % 2)
    + 2 * (((a \div 2) + (b \div 2)) % 2)
    + 4 * (((a \div 4) + (b \div 4)) % 2)
    + 8 * (((a \div 8) + (b \div 8)) % 2)
    + 16 * (((a \div 16) + (b \div 16)) % 2)
    + 32 * (((a \div 32) + (b \div 32)) % 2)
    + 64 * (((a \div 64) + (b \div 64)) % 2)
    + 128 * (((a \div 128) + (b \div 128)) % 2)

\* ---- crypto_onetimeauth_poly1305; numbers are little-endian byte strings
\* The bytes of the number whose base-256 digits are a[1] from position a[2]
\* on, with the carry a[3] coming in (the digits may exceed 255).
RECURSIVE CarryFrom(_)
CarryFrom(a) ==
  IF a[2] > Len(a[1])
  THEN IF a[3] = 0 THEN <<>>
       ELSE <<a[3] % 256>> \o Once(CarryFrom, <<a[1], a[2], a[3] \div 256>>)
  ELSE <<(a[1][a[2]] + a[3]) % 256>>
         \o Once(CarryFrom, <<a[1], a[2] + 1, (a[1][a[2]] + a[3]) \div 256>>)

CarryAll(cols) == CarryFrom(<<cols, 1, 0>>)
Normalize(cols) == Once(CarryAll, cols)

Digit(x, i) == IF i >= 1 /\ i <= Len(x) THEN x[i] ELSE 0

\* a[1] + a[2], a[1] * a[2] for a small a[2], and a[1] * a[2]
BigAddOf(a) ==
  Normalize([i \in 1..(IF Len(a[1]) > Len(a[2]) THEN Len(a[1])
                                                 ELSE Len(a[2])) |->
               Digit(a[1], i) + Digit(a[2], i)])

BigMulSmallOf(a) == Normalize([i \in 1..Len(a[1]) |-> a[1][i] * a[2]])

BigMulOf(a) ==
  Normalize([k \in 1..(Len(a[1]) + Len(a[2]) - 1) |->
               SumSeq([i \in 1..Len(a[1]) |->
                         a[1][i] * Digit(a[2], k + 1 - i)])])

BigAdd(x, y) == Once(BigAddOf, <<x, y>>)
BigMulSmall(x, c) == Once(BigMulSmallOf, <<x, c>>)
BigMul(x, y) == Once(BigMulOf, <<x, y>>)

\* x below 2^130
Below130(x) == \A i \in 17..Len(x) : IF i = 17 THEN x[i] < 4 ELSE x[i] = 0

\* a number congruent to x modulo 2^130 - 5: the low 130 bits plus 5 times
\* the rest
Fold130(x) ==
  BigAdd([i \in 1..17 |-> IF i = 17 THEN Digit(x, i) % 4 ELSE Digit(x, i)],
         BigMulSmall([i \in 1..(Len(x) - 16) |->
                        (x[16 + i] \div 4) + (Digit(x, 17 + i) % 4) * 64],
                     5))

\* x modulo 2^130 - 5 for x below 2^130, as 17 bytes
Freeze130(x) ==
  IF /\ Digit(x, 17) = 3
     /\ \A i \in 2..16 : Digit(x, i) = 255
     /\ Digit(x, 1) >= 251
  THEN <<Digit(x, 1) - 251>> \o Repeat(0, 16)
  ELSE [i \in 1..17 |-> Digit(x, i)]

\* x modulo 2^130 - 5
RECURSIVE Mod1305(_)
Mod1305(x) ==
  IF Below130(x) THEN Freeze130(x) ELSE Once(Mod1305, Once(Fold130, x))

\* r: the first half of the key with 22 bits cleared
PolyR(key) ==
  [i \in 1..16 |->
     IF i \in {4, 8, 12, 16} THEN key[i] % 16
     ELSE IF i \in {5, 9, 13} THEN key[i] - (key[i] % 4)
     ELSE key[i]]

\* block j of the message with the byte 1 put after it
PolyBlock(msg, j) ==
  SubSeq(msg, 16 * (j - 1) + 1,
         IF 16 * j < Len(msg) THEN 16 * j ELSE Len(msg)) \o <<1>>

\* the accumulator after the first a[3] blocks of the message a[1], for r =
\* a[2]: acc = (acc + block) * r mod 2^130 - 5
RECURSIVE PolyAcc(_)
PolyAcc(a) ==
  IF a[3] = 0 THEN <<>>
  ELSE Once(Mod1305,
            BigMul(BigAdd(Once(PolyAcc, <<a[1], a[2], a[3] - 1>>),
                          PolyBlock(a[1], a[3])),
                   a[2]))

\* the tag of a = <<msg, key>>: (acc + second half of the key) mod 2^128
Low16(x) == [i \in 1..16 |-> Digit(x, i)]

PolyTag(a) ==
  Once(Low16,
       BigAdd(Once(PolyAcc,
                   <<a[1], PolyR(a[2]), (Len(a[1]) + 15) \div 16>>),
              SubSeq(a[2], 17, 32)))

Poly1305(msg, key) == Once(PolyTag, <<msg, key>>)

\* crypto_box_easy_afternm(m, nonce, k) for a = <<m, stream>>, stream the
\* XSalsa20 stream of k and the nonce.  The first 32 bytes of the stream are
\* the Poly1305 key, the following ones encrypt the message; the result is
\* the tag, then the encrypted message.
TagThenText(a) == Poly1305(a[1], a[2]) \o a[1]

SecretBox(a) ==
  Once(TagThenText,
       <<[i \in 1..Len(a[1]) |-> Xor8(a[1][i], a[2][32 + i])],
         SubSeq(a[2], 1, 32)>>)

\* The box for r: the message m, the recipient's key pk and the ephemeral
\* secret esk.  ok is FALSE and err names the exception when the call fails:
\* crypto_box_seal returns -1 (CryptoError) for a key of small order.
SealBox(r) ==
  IF HasSmallOrder(r.pk)
  THEN [ok |-> FALSE, err |-> "CryptoError", bytes |-> <<>>]
  ELSE [ok |-> TRUE, err |-> "",
        bytes |->
          ScalarMultBase(r.esk)
            \o Once(SecretBox,
                    <<r.m,
                      KeyStream(BoxBeforeNm(ScalarMult(r.esk, r.pk)),
                                SealNonce(ScalarMultBase(r.esk), r.pk))>>)]

\* crypto_box_seal with one ephemeral key for every call.
CryptoBoxSealNoEphemeral(m, pk, esk) ==
  IF Len(pk) # KeyBytes
  THEN [ok |-> FALSE, err |-> "ValueError", bytes |-> <<>>]
  ELSE Once(SealBox, [m |-> m, pk |-> pk, esk |-> EphemeralSecret(1)])

\* nacl.bindings.crypto_box_seal(m, pk) with the ephemeral secret key esk that
\* crypto_box_keypair drew; the binding refuses a key that is not 32 bytes
\* (ValueError) before it calls the library.
CryptoBoxSeal(m, pk, esk) ==
  IF Len(pk) # KeyBytes
  THEN [ok |-> FALSE, err |-> "ValueError", bytes |-> <<>>]
  ELSE Once(SealBox, [m |-> m, pk |-> pk, esk |-> esk])

\* ------------------------------------------------------------------ inputs
\* The recipients' public keys.
PublicOf(k) == ScalarMultBase(PrivateScalar(k))

\* The base64 text of a recipient's public key, as handed on the command line.
GoodKey(k) == AsciiDecode(B64Encode(PublicOf(k)))

InsertAt(s, i, x) == SubSeq(s, 1, i) \o x \o SubSeq(s, i + 1, Len(s))

\* Candidate first arguments.
\* "not-base64-@@@"
NotBase64 == <<110, 111, 116, 45, 98, 97, 115, 101, 54, 52, 45, 64, 64, 64>>
\* a key with "@@@" in the middle
KeyWithJunk == InsertAt(GoodKey(1), 8, <<64, 64, 64>>)
\* a key followed by a newline
KeyWithNewline == GoodKey(1) \o <<10>>
\* a key with a non-ASCII letter in the middle
KeyWithAccent == InsertAt(GoodKey(1), 4, <<233>>)
\* a key followed by more base64 text after its padding
KeyWithTail == GoodKey(1) \o <<65, 65, 65, 65>>
\* a key without its padding character
KeyNoPad == SubSeq(GoodKey(1), 1, Len(GoodKey(1)) - 1)
\* a key followed by a lone surrogate (a byte of argv that is not UTF-8)
KeyWithSurrogate == GoodKey(1) \o <<56575>>
\* ten bytes, 33 bytes and 32 zero bytes, correctly encoded
ShortKey == AsciiDecode(B64Encode(<<1, 2, 3, 4, 5, 6, 7, 8, 9, 10>>))
LongKey == AsciiDecode(B64Encode(PublicOf(1) \o <<7>>))
ZeroKey == AsciiDecode(B64Encode(Repeat(0, KeyBytes)))
\* a point of order 8, correctly encoded
SmallOrderKey ==
  AsciiDecode(B64Encode(
    <<224, 235, 122, 124, 59, 65, 184, 174, 22, 86, 227, 250, 241, 159, 196,
      106, 218, 9, 141, 235, 156, 50, 177, 253, 134, 98, 5, 22, 95, 73, 184,
      0>>))
\* 32 bytes that are nobody's public key here (the number 251), correctly
\* encoded
UnpairedKey == AsciiDecode(B64Encode(LowByte(251)))

KeyStrings ==
  {GoodKey(k) : k \in 1..NumKeyPairs}
    \cup {NotBase64, KeyWithJunk, KeyWithNewline, KeyWithAccent, KeyWithTail,
          KeyNoPad, KeyWithSurrogate, ShortKey, LongKey, ZeroKey, SmallOrderKey,
          UnpairedKey, <<>>}

\* Code points a secret is made of: "a", e-acute, the euro sign, an emoji
\* and a lone surrogate.
SecretAlphabet == {97, 233, 8364, 128512, 56575}

Secrets == SeqsUpTo(SecretAlphabet, MaxSecretLen)

\* Arguments used when the count is wrong.
SomeArgs == {GoodKey(1), <<97>>}

RECURSIVE ArgLists(_)
ArgLists(n) ==
  IF n = 0 THEN {<<>>}
  ELSE {Append(l, a) : l \in ArgLists(n - 1), a \in SomeArgs}

\* sys.argv of an invocation: the program name and 0 .. 2 + MaxExtraArgs
\* arguments.
ArgvSet ==
  {<<ProgName, k, s>> : k \in KeyStrings, s \in Secrets}
    \cup UNION {{<<ProgName>> \o l : l \in ArgLists(n)} :
                  n \in (0..(2 + MaxExtraArgs)) \ {2}}

\* The invocations run side by side in the concurrent specification.
ConcArgvSet ==
  {<<ProgName>>,
   <<ProgName, GoodKey(1), <<97, 233>> >>,
   <<ProgName, GoodKey(2), <<97>> >>,
   <<ProgName, NotBase64, <<97>> >>}

\* ------------------------------------------------------------------- state
VARIABLES
  procs,           \* the invocations (processes) of this run
  argv,            \* sys.argv of each
  pc,              \* the line each is about to execute, or "exited"
  public_key_b64,  \* line 9
  secret_value,    \* line 10
  key,             \* line 12: the decoded public key
  sealed_box,      \* line 13: the public key the box seals to
  esk,             \* the ephemeral secret key drawn inside line 14
  encrypted,       \* line 14
  stdout,          \* the lines printed
  stderr,          \* the exception that ended the process, "" if none
  status,          \* exit status, -1 while running
  calls            \* the library calls made so far

vars == <<procs, argv, pc, public_key_b64, secret_value, key, sealed_box, esk,
          encrypted, stdout, stderr, status, calls>>

InitOf(P, A) ==
  /\ procs = P
  /\ argv \in [P -> A]
  /\ pc = [p \in P |-> "l5"]
  /\ public_key_b64 = [p \in P |-> <<>>]
  /\ secret_value = [p \in P |-> <<>>]
  /\ key = [p \in P |-> <<>>]
  /\ sealed_box = [p \in P |-> <<>>]
  /\ esk = [p \in P |-> <<>>]
  /\ encrypted = [p \in P |-> <<>>]
  /\ stdout = [p \in P |-> <<>>]
  /\ stderr = [p \in P |-> ""]
  /\ status = [p \in P |-> -1]
  /\ calls = [p \in P |-> <<>>]

Init == InitOf({1}, ArgvSet)

InitConc == InitOf(1..NumProcs, ConcArgvSet)

\* A handler that swallows the exception and lets the script go on to print.
RaiseAndContinue(p, exc, made) ==
  /\ pc' = [pc EXCEPT ![p] = "l15"]
  /\ stderr' = [stderr EXCEPT ![p] = exc]
  /\ status' = status
  /\ calls' = [calls EXCEPT ![p] = @ \o made]

\* An uncaught exception: traceback on stderr, exit status 1, nothing more
\* runs.
Raise(p, exc, made) ==
  /\ pc' = [pc EXCEPT ![p] = "exited"]
  /\ stderr' = [stderr EXCEPT ![p] = exc]
  /\ status' = [status EXCEPT ![p] = 1]
  /\ calls' = [calls EXCEPT ![p] = @ \o made]

\* The usage branch leaving with status 0.
UsageExitStatus0(p) ==
  /\ pc[p] = "l5"
  /\ Len(argv[p]) # 3
  /\ stdout' = [stdout EXCEPT ![p] = Append(@, UsageLine)]
  /\ status' = [status EXCEPT ![p] = 0]
  /\ pc' = [pc EXCEPT ![p] = "exited"]
  /\ UNCHANGED <<procs, argv, public_key_b64, secret_value, key, sealed_box,
                 esk, encrypted, stderr, calls>>

\* lines 5-7: wrong argument count
UsageExit(p) ==
  /\ pc[p] = "l5"
  /\ Len(argv[p]) # 3
  /\ stdout' = [stdout EXCEPT ![p] = Append(@, UsageLine)]
  /\ status' = [status EXCEPT ![p] = 1]
  /\ pc' = [pc EXCEPT ![p] = "exited"]
  /\ UNCHANGED <<procs, argv, public_key_b64, secret_value, key, sealed_box,
                 esk, encrypted, stderr, calls>>

\* lines 5, 9, 10: right argument count
ReadArgs(p) ==
  /\ pc[p] = "l5"
  /\ Len(argv[p]) = 3
  /\ public_key_b64' = [public_key_b64 EXCEPT ![p] = argv[p][2]]
  /\ secret_value' = [secret_value EXCEPT ![p] = argv[p][3]]
  /\ pc' = [pc EXCEPT ![p] = "l12"]
  /\ UNCHANGED <<procs, argv, key, sealed_box, esk, encrypted, stdout, stderr,
                 status, calls>>

\* Line 12 without the check of the decoded length.
MakeKeyNoLengthCheck(p) ==
  /\ pc[p] = "l12"
  /\ LET enc == Utf8Encode(public_key_b64[p])
         dec == B64Decode(enc.bytes)
     IN IF ~enc.ok
        THEN Raise(p, "UnicodeEncodeError", <<>>) /\ UNCHANGED key
        ELSE IF ~dec.ok
        THEN Raise(p, "binascii.Error", <<"b64decode">>) /\ UNCHANGED key
        ELSE /\ key' = [key EXCEPT ![p] = dec.bytes]
             /\ pc' = [pc EXCEPT ![p] = "l13"]
             /\ calls' = [calls EXCEPT ![p] = @ \o <<"b64decode", "PublicKey">>]
             /\ UNCHANGED <<stderr, status>>
  /\ UNCHANGED <<procs, argv, public_key_b64, secret_value, sealed_box, esk,
                 encrypted, stdout>>

\* line 12: public.PublicKey(public_key_b64.encode("utf-8"), Base64Encoder())
MakeKey(p) ==
  /\ pc[p] = "l12"
  /\ LET enc == Utf8Encode(public_key_b64[p])
         dec == B64Decode(enc.bytes)
     IN IF ~enc.ok
        THEN Raise(p, "UnicodeEncodeError", <<>>) /\ UNCHANGED key
        ELSE IF ~dec.ok
        THEN Raise(p, "binascii.Error", <<"b64decode">>) /\ UNCHANGED key
        ELSE IF Len(dec.bytes) # KeyBytes
        THEN Raise(p, "ValueError", <<"b64decode">>) /\ UNCHANGED key
        ELSE /\ key' = [key EXCEPT ![p] = dec.bytes]
             /\ pc' = [pc EXCEPT ![p] = "l13"]
             /\ calls' = [calls EXCEPT ![p] = @ \o <<"b64decode", "PublicKey">>]
             /\ UNCHANGED <<stderr, status>>
  /\ UNCHANGED <<procs, argv, public_key_b64, secret_value, sealed_box, esk,
                 encrypted, stdout>>

\* Line 13 reading the key from a place every invocation shares (here: the
\* key of the lowest-numbered invocation).
MakeBoxShared(p) ==
  /\ pc[p] = "l13"
  /\ sealed_box' = [sealed_box EXCEPT
                      ![p] = key[CHOOSE q \in procs : \A r \in procs : q <= r]]
  /\ calls' = [calls EXCEPT ![p] = Append(@, "SealedBox")]
  /\ pc' = [pc EXCEPT ![p] = "l14"]
  /\ UNCHANGED <<procs, argv, public_key_b64, secret_value, key, esk,
                 encrypted, stdout, stderr, status>>

\* line 13: public.SealedBox(key)
MakeBox(p) ==
  /\ pc[p] = "l13"
  /\ sealed_box' = [sealed_box EXCEPT ![p] = key[p]]
  /\ calls' = [calls EXCEPT ![p] = Append(@, "SealedBox")]
  /\ pc' = [pc EXCEPT ![p] = "l14"]
  /\ UNCHANGED <<procs, argv, public_key_b64, secret_value, key, esk,
                 encrypted, stdout, stderr, status>>

\* secret_value.encode("ascii", "ignore"): characters outside ASCII dropped.
AsciiIgnoreEncode(s) ==
  [ok |-> TRUE, bytes |-> SelectSeq(s, LAMBDA c : c < 128)]

\* Line 14 with the secret encoded as ASCII.
EncryptAscii(p) ==
  /\ pc[p] = "l14"
  /\ LET enc == AsciiIgnoreEncode(secret_value[p])
     IN \E e \in 1..NumEphemeral :
               LET box == CryptoBoxSeal(enc.bytes, sealed_box[p],
                                        EphemeralSecret(e))
               IN /\ esk' = [esk EXCEPT ![p] = EphemeralSecret(e)]
                  /\ IF ~box.ok
                     THEN Raise(p, box.err, <<"crypto_box_seal">>)
                            /\ UNCHANGED encrypted
                     ELSE /\ encrypted' = [encrypted EXCEPT ![p] = box.bytes]
                          /\ calls' = [calls EXCEPT
                                         ![p] = Append(@, "crypto_box_seal")]
                          /\ pc' = [pc EXCEPT ![p] = "l15"]
                          /\ UNCHANGED <<stderr, status>>
  /\ UNCHANGED <<procs, argv, public_key_b64, secret_value, key, sealed_box,
                 stdout>>

\* Line 14 with the primitive's return code ignored.
EncryptUnchecked(p) ==
  /\ pc[p] = "l14"
  /\ LET enc == Utf8Encode(secret_value[p])
     IN IF ~enc.ok
        THEN Raise(p, "UnicodeEncodeError", <<>>) /\ UNCHANGED <<esk, encrypted>>
        ELSE \E e \in 1..NumEphemeral :
               LET box == CryptoBoxSeal(enc.bytes, sealed_box[p],
                                        EphemeralSecret(e))
               IN /\ esk' = [esk EXCEPT ![p] = EphemeralSecret(e)]
                  /\ encrypted' = [encrypted EXCEPT ![p] = box.bytes]
                  /\ calls' = [calls EXCEPT ![p] = Append(@, "crypto_box_seal")]
                  /\ pc' = [pc EXCEPT ![p] = "l15"]
                  /\ UNCHANGED <<stderr, status>>
  /\ UNCHANGED <<procs, argv, public_key_b64, secret_value, key, sealed_box,
                 stdout>>

\* line 14: sealed_box.encrypt(secret_value.encode("utf-8"))
Encrypt(p) ==
  /\ pc[p] = "l14"
  /\ LET enc == Utf8Encode(secret_value[p])
     IN IF ~enc.ok
        THEN Raise(p, "UnicodeEncodeError", <<>>) /\ UNCHANGED <<esk, encrypted>>
        ELSE \E e \in 1..NumEphemeral :
               LET box == CryptoBoxSeal(enc.bytes, sealed_box[p],
                                        EphemeralSecret(e))
               IN /\ esk' = [esk EXCEPT ![p] = EphemeralSecret(e)]
                  /\ IF ~box.ok
                     THEN Raise(p, box.err, <<"crypto_box_seal">>)
                            /\ UNCHANGED encrypted
                     ELSE /\ encrypted' = [encrypted EXCEPT ![p] = box.bytes]
                          /\ calls' = [calls EXCEPT
                                         ![p] = Append(@, "crypto_box_seal")]
                          /\ pc' = [pc EXCEPT ![p] = "l15"]
                          /\ UNCHANGED <<stderr, status>>
  /\ UNCHANGED <<procs, argv, public_key_b64, secret_value, key, sealed_box,
                 stdout>>

\* Line 15 printing the ciphertext bytes without encoding them.
PrintCiphertextRaw(p) ==
  /\ pc[p] = "l15"
  /\ stdout' = [stdout EXCEPT ![p] = Append(@, encrypted[p])]
  /\ calls' = [calls EXCEPT ![p] = @]
  /\ status' = [status EXCEPT ![p] = 0]
  /\ pc' = [pc EXCEPT ![p] = "exited"]
  /\ UNCHANGED <<procs, argv, public_key_b64, secret_value, key, sealed_box,
                 esk, encrypted, stderr>>

\* line 15: print(base64.b64encode(encrypted).decode("utf-8")), then the
\* script ends and the interpreter exits with status 0
PrintCiphertext(p) ==
  /\ pc[p] = "l15"
  /\ stdout' = [stdout EXCEPT
                  ![p] = Append(@, AsciiDecode(B64Encode(encrypted[p])))]
  /\ calls' = [calls EXCEPT ![p] = Append(@, "b64encode")]
  /\ status' = [status EXCEPT ![p] = 0]
  /\ pc' = [pc EXCEPT ![p] = "exited"]
  /\ UNCHANGED <<procs, argv, public_key_b64, secret_value, key, sealed_box,
                 esk, encrypted, stderr>>

Next ==
  \/ \E p \in procs : UsageExit(p)
  \/ \E p \in procs : ReadArgs(p)
  \/ \E p \in procs : MakeKey(p)
  \/ \E p \in procs : MakeBox(p)
  \/ \E p \in procs : Encrypt(p)
  \/ \E p \in procs : PrintCiphertext(p)

\* One invocation, every input.
Spec == Init /\ [][Next]_vars

\* Several invocations side by side.
SpecConc == InitConc /\ [][Next]_vars

\* One invocation, every input, each statement eventually executed: the
\* interpreter runs the script's statements one after the other without
\* waiting on anything.
SpecFair == Init /\ [][Next]_vars /\ WF_vars(Next)

\* ------------------------------------------------- the paired decryption
\* crypto_box_seal_open(c, pk, sk) for the recipient's key pair: the nonce
\* from the ephemeral public key at the head of c, the same key stream from
\* crypto_scalarmult(sk, epk), the tag checked before anything is returned.
SecretBoxOpen(r) ==
  IF r.tag # Poly1305(r.ct, SubSeq(r.stream, 1, 32))
  THEN [ok |-> FALSE, bytes |-> <<>>]
  ELSE [ok |-> TRUE,
        bytes |-> [i \in 1..Len(r.ct) |-> Xor8(r.ct[i], r.stream[32 + i])]]

SealOpenBox(r) ==
  Once(SecretBoxOpen,
       [tag |-> r.tag, ct |-> r.ct,
        stream |-> KeyStream(BoxBeforeNm(ScalarMult(r.sk, r.epk)),
                             SealNonce(r.epk, r.pk))])

SealOpen(c, pk, sk) ==
  IF Len(c) < KeyBytes + MacBytes \/ HasSmallOrder(SubSeq(c, 1, KeyBytes))
  THEN [ok |-> FALSE, bytes |-> <<>>]
  ELSE Once(SealOpenBox,
            [epk |-> SubSeq(c, 1, KeyBytes),
             tag |-> SubSeq(c, KeyBytes + 1, KeyBytes + MacBytes),
             ct |-> SubSeq(c, KeyBytes + MacBytes + 1, Len(c)),
             pk |-> pk, sk |-> sk])

\* bytes.decode("utf-8"); a sequence holding -1 when the bytes are not UTF-8.
RECURSIVE Utf8Decode(_)
Utf8Decode(b) ==
  IF b = <<>> THEN <<>>
  ELSE LET lead == b[1]
           n == IF lead < 128 THEN 1
                ELSE IF lead >= 192 /\ lead < 224 THEN 2
                ELSE IF lead >= 224 /\ lead < 240 THEN 3
                ELSE IF lead >= 240 /\ lead < 248 THEN 4
                ELSE 0
       IN IF n = 0 \/ Len(b) < n
             \/ \E i \in 2..n : b[i] < 128 \/ b[i] >= 192
          THEN <<-1>>
          ELSE LET c == IF n = 1 THEN lead
                        ELSE IF n = 2 THEN (lead - 192) * 64 + (b[2] - 128)
                        ELSE IF n = 3
                          THEN (lead - 224) * 4096 + (b[2] - 128) * 64
                                 + (b[3] - 128)
                        ELSE (lead - 240) * 262144 + (b[2] - 128) * 4096
                               + (b[3] - 128) * 64 + (b[4] - 128)
               IN <<c>> \o Utf8Decode(SubSeq(b, n + 1, Len(b)))

\* What the holder of private key k reads from a printed line.
Decrypt(line, k) ==
  LET raw == B64Decode(Utf8Encode(line).bytes)
      open == SealOpen(raw.bytes, PublicOf(k), PrivateScalar(k))
  IN IF raw.ok /\ open.ok THEN Utf8Decode(open.bytes) ELSE <<-1>>

\* ------------------------------------------------------- claim vocabulary
Exited(p) == pc[p] = "exited"

\* a line on standard output that is not the usage line
HasCiphertext(p) == \E i \in 1..Len(stdout[p]) : stdout[p][i] # UsageLine

\* RFC 4648 base64 text: alphabet characters in whole quads, '=' only as the
\* last one or two characters
StrictB64(s) ==
  /\ Len(s) % 4 = 0
  /\ \A i \in 1..Len(s) :
       \/ IsB64Data(s[i])
       \/ /\ s[i] = 61
          /\ i >= Len(s) - 1
          /\ s[Len(s)] = 61

\* the bytes the library decodes the key argument of p to
KeyArgBytes(p) == B64Decode(Utf8Encode(argv[p][2]).bytes).bytes

\* the key argument of p is the base64 text of 32 bytes
ValidKeyArg(p) == StrictB64(argv[p][2]) /\ Len(KeyArgBytes(p)) = KeyBytes

\* the number of bytes of a string in UTF-8
Utf8Width(c) == IF c < 128 THEN 1 ELSE IF c < 2048 THEN 2
                ELSE IF c < 65536 THEN 3 ELSE 4
Utf8Length(s) == SumSeq([i \in 1..Len(s) |-> Utf8Width(s[i])])

\* ---------------------------------------------------------------------- C1
\* C1: an invocation whose argument count is not 2 makes no library call,
\* decodes no key and encrypts nothing; it either has not started or has
\* exited with status 1 and exactly the usage line on standard output.
C1_UsageError ==
  \A p \in procs :
    Len(argv[p]) # 3 =>
      /\ calls[p] = <<>>
      /\ key[p] = <<>>
      /\ encrypted[p] = <<>>
      /\ stderr[p] = ""
      /\ \/ pc[p] = "l5" /\ status[p] = -1 /\ stdout[p] = <<>>
         \/ pc[p] = "exited" /\ status[p] = 1 /\ stdout[p] = <<UsageLine>>

C1_Witness ==
  \E p \in procs : Len(argv[p]) > 3 /\ Exited(p) /\ stdout[p] = <<UsageLine>>

\* ---------------------------------------------------------------------- C2
\* C2 as stated: with two arguments, the first the base64 text of 32 bytes,
\* the invocation ends with status 0 and one ciphertext line, whatever the
\* secret.
C2_Original ==
  \A p \in procs :
    (Len(argv[p]) = 3 /\ ValidKeyArg(p) /\ Exited(p)) =>
      /\ status[p] = 0
      /\ Len(stdout[p]) = 1

\* C2 amended: with two arguments, the first the base64 text of a 32-byte key
\* that is not a point of small order, the second a string UTF-8 can encode
\* (the empty string included), the invocation ends with status 0 and
\* standard output holds exactly one line, the base64 text of the sealed
\* UTF-8 bytes of the secret.
C2_SealSucceeds ==
  \A p \in procs :
    (/\ Len(argv[p]) = 3
     /\ ValidKeyArg(p)
     /\ ~HasSmallOrder(KeyArgBytes(p))
     /\ Utf8Encode(argv[p][3]).ok
     /\ Exited(p)) =>
      /\ status[p] = 0
      /\ stderr[p] = ""
      /\ Len(stdout[p]) = 1
      /\ StrictB64(stdout[p][1])
      /\ B64Decode(stdout[p][1]).ok
      /\ B64Decode(stdout[p][1]).bytes =
           CryptoBoxSeal(Utf8Encode(argv[p][3]).bytes, KeyArgBytes(p),
                         esk[p]).bytes

C2_Witness ==
  \E p \in procs :
    /\ Len(argv[p]) = 3 /\ ValidKeyArg(p) /\ argv[p][3] = <<>>
    /\ Exited(p) /\ status[p] = 0 /\ Len(stdout[p]) = 1

\* ---------------------------------------------------------------------- C3
\* C3: a ciphertext line is on standard output only when the argument count
\* was right, the key decoded to 32 bytes, the secret was encoded and the
\* primitive succeeded, and then the invocation has exited with status 0; an
\* invocation with a non-zero status has no ciphertext on standard output.
C3_NoPartialOutput ==
  \A p \in procs :
    /\ HasCiphertext(p) =>
         /\ Len(argv[p]) = 3
         /\ Utf8Encode(argv[p][2]).ok
         /\ B64Decode(Utf8Encode(argv[p][2]).bytes).ok
         /\ Len(KeyArgBytes(p)) = KeyBytes
         /\ Utf8Encode(argv[p][3]).ok
         /\ CryptoBoxSeal(Utf8Encode(argv[p][3]).bytes, KeyArgBytes(p),
                          esk[p]).ok
         /\ Exited(p)
         /\ status[p] = 0
    /\ status[p] > 0 => ~HasCiphertext(p)

C3_Witness ==
  \E p \in procs : HasCiphertext(p) /\ Exited(p) /\ status[p] = 0

\* ---------------------------------------------------------------------- C4
\* C4: with two arguments, a key argument that is not valid base64 ends the
\* invocation with a non-zero status and no ciphertext.
C4_MalformedBase64Rejected ==
  \A p \in procs :
    (Len(argv[p]) = 3 /\ ~StrictB64(argv[p][2]) /\ Exited(p)) =>
      status[p] # 0 /\ ~HasCiphertext(p)

\* ---------------------------------------------------------------------- C5
\* C5: with two arguments, a key argument that is correct base64 of a byte
\* string whose length is not 32 never reaches the primitive and never
\* prints a ciphertext, and the invocation ends with a non-zero status.
C5_WrongLengthKey ==
  \A p \in procs :
    (/\ Len(argv[p]) = 3
     /\ StrictB64(argv[p][2])
     /\ Len(KeyArgBytes(p)) # KeyBytes) =>
      /\ \A i \in 1..Len(calls[p]) : calls[p][i] # "crypto_box_seal"
      /\ ~HasCiphertext(p)
      /\ encrypted[p] = <<>>
      /\ Exited(p) => status[p] > 0

C5_Witness ==
  \E p \in procs :
    /\ Len(argv[p]) = 3 /\ argv[p][2] = ShortKey
    /\ Exited(p) /\ stderr[p] = "ValueError"

\* ---------------------------------------------------------------------- C6
\* C6: when an invocation sealed secret s to the public key of key pair k and
\* succeeded, base64-decoding the printed line and opening it with the
\* private key of k gives back exactly s.
C6_RoundTrip ==
  \A p \in procs : \A k \in 1..NumKeyPairs :
    (/\ Exited(p) /\ status[p] = 0
     /\ Len(argv[p]) = 3
     /\ KeyArgBytes(p) = PublicOf(k)) =>
      /\ Len(stdout[p]) = 1
      /\ Decrypt(stdout[p][1], k) = argv[p][3]

C6_Witness ==
  \E p \in procs :
    /\ Exited(p) /\ status[p] = 0 /\ Len(argv[p]) = 3
    /\ KeyArgBytes(p) = PublicOf(2)
    /\ argv[p][3] = <<233, 8364>>
    /\ Decrypt(stdout[p][1], 2) = <<233, 8364>>

\* ---------------------------------------------------------------------- C7
\* C7 as stated: two successful invocations with the same arguments print
\* different ciphertexts.
C7_Original ==
  \A p, q \in procs :
    (/\ p # q /\ argv[p] = argv[q]
     /\ Exited(p) /\ status[p] = 0
     /\ Exited(q) /\ status[q] = 0) =>
      stdout[p] # stdout[q]

\* C7 amended: two successful invocations with the same arguments print
\* different ciphertexts exactly when the ephemeral key pairs they drew have
\* different public keys, and both ciphertexts open to the same plaintext
\* under the matching private key.
C7_FreshEphemeral ==
  \A p, q \in procs :
    (/\ p # q /\ argv[p] = argv[q]
     /\ Exited(p) /\ status[p] = 0
     /\ Exited(q) /\ status[q] = 0) =>
      /\ (ScalarMultBase(esk[p]) # ScalarMultBase(esk[q]))
           <=> (stdout[p] # stdout[q])
      /\ \A k \in 1..NumKeyPairs :
           KeyArgBytes(p) = PublicOf(k) =>
             /\ Decrypt(stdout[p][1], k) = argv[p][3]
             /\ Decrypt(stdout[q][1], k) = argv[p][3]

C7_Witness ==
  \E p, q \in procs :
    /\ p # q /\ argv[p] = argv[q]
    /\ Exited(p) /\ status[p] = 0
    /\ Exited(q) /\ status[q] = 0
    /\ ScalarMultBase(esk[p]) # ScalarMultBase(esk[q])
    /\ stdout[p] # stdout[q]

\* ---------------------------------------------------------------------- C8
\* C8: after a successful seal the ciphertext is 32 + 16 bytes longer than
\* the UTF-8 encoding of the secret, whatever the key and the ephemeral key,
\* and the printed line decodes to that many bytes.
C8_CiphertextLength ==
  \A p \in procs :
    (Exited(p) /\ status[p] = 0) =>
      /\ Len(encrypted[p]) = KeyBytes + MacBytes + Utf8Length(argv[p][3])
      /\ Len(B64Decode(stdout[p][1]).bytes) = Len(encrypted[p])

C8_Witness ==
  \E p \in procs :
    /\ Exited(p) /\ status[p] = 0
    /\ argv[p][3] = <<128512, 233>>
    /\ Len(encrypted[p]) = KeyBytes + MacBytes + 6

\* ---------------------------------------------------------------------- C9
UsageOutcome(p) ==
  status[p] = 1 /\ stdout[p] = <<UsageLine>> /\ stderr[p] = ""

FatalOutcome(p) ==
  status[p] > 0 /\ stdout[p] = <<>> /\ stderr[p] # ""

SuccessOutcome(p) ==
  /\ status[p] = 0 /\ stderr[p] = ""
  /\ Len(stdout[p]) = 1 /\ stdout[p][1] # UsageLine

LocalState(p) ==
  <<argv[p], pc[p], public_key_b64[p], secret_value[p], key[p], sealed_box[p],
    esk[p], encrypted[p], stdout[p], stderr[p], status[p], calls[p]>>

\* C9: every invocation eventually exits; an exited invocation shows exactly
\* one of the usage, fatal-error and success outcomes (the usage outcome
\* exactly when the argument count was wrong); a running one has printed
\* nothing; and nothing of an exited invocation changes afterwards.
C9_Terminates ==
  /\ <>(\A p \in procs : Exited(p))
  /\ [](\A p \in procs :
          /\ Exited(p) =>
               /\ UsageOutcome(p) <=> Len(argv[p]) # 3
               /\ \/ UsageOutcome(p) /\ ~FatalOutcome(p) /\ ~SuccessOutcome(p)
                  \/ ~UsageOutcome(p) /\ FatalOutcome(p) /\ ~SuccessOutcome(p)
                  \/ ~UsageOutcome(p) /\ ~FatalOutcome(p) /\ SuccessOutcome(p)
          /\ ~Exited(p) =>
               status[p] = -1 /\ stdout[p] = <<>> /\ stderr[p] = "")
  /\ [][\A p \in procs : Exited(p) => LocalState(p)' = LocalState(p)]_vars

C9_Witness ==
  \E p \in procs : Exited(p) /\ FatalOutcome(p) /\ stderr[p] = "CryptoError"

\* --------------------------------------------------------------------- C10
\* The exit status and standard output of an invocation run alone with
\* arguments a, drawing the ephemeral secret key e.
SoloRun(a, e) ==
  IF Len(a) # 3 THEN [status |-> 1, stdout |-> <<UsageLine>>]
  ELSE LET k == Utf8Encode(a[2])
           d == B64Decode(k.bytes)
           m == Utf8Encode(a[3])
           c == CryptoBoxSeal(m.bytes, d.bytes, e)
       IN IF ~k.ok \/ ~d.ok \/ Len(d.bytes) # KeyBytes \/ ~m.ok \/ ~c.ok
          THEN [status |-> 1, stdout |-> <<>>]
          ELSE [status |-> 0, stdout |-> <<AsciiDecode(B64Encode(c.bytes))>>]

\* C10: under every interleaving, a step of one invocation changes nothing
\* of any other, and an exited invocation's status and output are those of
\* running alone with its own arguments and its own ephemeral key.
C10_Independent ==
  /\ [](\A p \in procs :
          Exited(p) =>
            [status |-> status[p], stdout |-> stdout[p]]
              = SoloRun(argv[p], esk[p]))
  /\ [][\E p \in procs :
          \A q \in procs \ {p} : LocalState(q)' = LocalState(q)]_vars

C10_Witness ==
  \E p, q \in procs :
    /\ p # q
    /\ Exited(p) /\ status[p] = 0 /\ KeyArgBytes(p) = PublicOf(1)
    /\ Exited(q) /\ status[q] = 0 /\ KeyArgBytes(q) = PublicOf(2)
====
